---- MODULE Spec2Model ----
(***************************************************************************)
(* Model of the offers-and-asks matching service: the three online edge    *)
(* functions (search-by-username, search-by-request, search-by-offering),  *)
(* the shared Gemini helpers (generateEmbedding, generateSyntheticOffering,*)
(* rerankMatches) and the pgvector search functions (match_offerings,      *)
(* match_requests).                                                        *)
(*                                                                         *)
(* Text is a sequence of one-character strings.  Similarities are integers *)
(* in units of 1/Scale.  Embeddings are unit vectors in the plane at       *)
(* multiples of 30 degrees, named by their angle index.                    *)
(***************************************************************************)
EXTENDS Integers, Sequences, FiniteSets, TLC

\* ------------------------------------------------------------------------
\* Bounds of the model
\* ------------------------------------------------------------------------
MaxCand == 3
MaxTopK == 2
MaxIdxLen == 3
MaxLLMLen == 1
MaxRows == 3
MaxMatchCount == 2
MaxInvocations == 2
MaxSources == 1
MaxCandidates == 51
MaxDim == 2
MaxRuns == 2
MaxOps == 2
MaxTicks == 2

\* ------------------------------------------------------------------------
\* Program constants
\* ------------------------------------------------------------------------
TopK == 25
MatchCount == 50
MatchThreshold == 50000
Scale == 100000
Tier1Limit == 1
Tier2Limit == 5
Tier3Limit == 5
RankMin == 1
RankMax == 50
TimeoutMs == 180000

Min(a, b) == IF a < b THEN a ELSE b
Max(a, b) == IF a > b THEN a ELSE b

\* ------------------------------------------------------------------------
\* Attendee rows
\* ------------------------------------------------------------------------
\* The value of `data` when .single() finds nothing, and of a candidate's
\* attendee field when no attendee data was resolved.
NullRow == [id |-> 0, first_name |-> <<>>, last_name |-> <<>>, swapcard |-> 0]

Row(k, f, l) == [id |-> k, first_name |-> f, last_name |-> l, swapcard |-> k]

\* ------------------------------------------------------------------------
\* JavaScript values that can occur as elements of the parsed index array
\* ------------------------------------------------------------------------
\* A number is stored as twice its value (v2), so that 0.5 is v2 = 1.
\* A string is either the canonical decimal form of an integer (nan = FALSE)
\* or some text that is not a number (nan = TRUE).
JSNum(v2) == [t |-> "num", v2 |-> v2, nan |-> FALSE]
JSIntStr(n) == [t |-> "str", v2 |-> 2 * n, nan |-> FALSE]
JSText == [t |-> "str", v2 |-> 0, nan |-> TRUE]
JSNull == [t |-> "null", v2 |-> 0, nan |-> FALSE]

\* ToNumber(null) = 0, ToNumber("1") = 1, ToNumber("x") = NaN; every
\* comparison with NaN is false.
JSLessThanZero(v) == ~v.nan /\ v.v2 < 0
JSAtLeast(v, n) == ~v.nan /\ v.v2 >= 2 * n

\* matches[idx]: the property key is ToString(idx); it names an element only
\* if it is the canonical form of an array index below the length.
JSHasElem(matches, v) ==
    /\ v.t \in {"num", "str"}
    /\ ~v.nan
    /\ v.v2 % 2 = 0
    /\ v.v2 \div 2 >= 0
    /\ v.v2 \div 2 < Len(matches)

JSElem(matches, v) == matches[(v.v2 \div 2) + 1]

\* ------------------------------------------------------------------------
\* rerankMatches (gemini.ts)
\* ------------------------------------------------------------------------
\* Math.round(x * 1000) / 1000
Round3(x) == ((x + (Scale \div 2000)) \div (Scale \div 1000)) * (Scale \div 1000)

FullName(row) == row.first_name \o <<" ">> \o row.last_name

BuildEntry(match) ==
    [name |-> FullName(match.attendee),
     text |-> match.text,
     similarity_score |-> Round3(match.similarity),
     swapcard |-> match.attendee.swapcard]

\* Mutant: the index array is not cut to topK.
SliceTopK_NoLimit(s, k) == s

SliceTopK(s, k) ==
    IF k >= 0 THEN SubSeq(s, 1, Min(k, Len(s)))
    ELSE SubSeq(s, 1, Max(Len(s) + k, 0))

\* One iteration of the validation loop: the entries idx adds to finalResults.
RerankStep(matches, idx) ==
    IF JSLessThanZero(idx) \/ JSAtLeast(idx, Len(matches)) THEN <<>>
    ELSE IF ~JSHasElem(matches, idx) THEN <<>>
    ELSE IF JSElem(matches, idx).attendee = NullRow THEN <<>>
    ELSE <<BuildEntry(JSElem(matches, idx))>>

RECURSIVE RerankLoop(_, _)
RerankLoop(matches, idxs) ==
    IF idxs = <<>> THEN <<>>
    ELSE RerankStep(matches, Head(idxs)) \o RerankLoop(matches, Tail(idxs))

Threw == [threw |-> TRUE, value |-> <<>>]
Returned(v) == [threw |-> FALSE, value |-> v]

\* The manifest built for the prompt reads match.attendee.first_name of
\* every candidate.
ManifestThrows(matches) ==
    \E i \in 1..Len(matches) : matches[i].attendee = NullRow

\* up is the upstream outcome: kind says how far the call got, json is the
\* value JSON.parse produced from the (fence-stripped) text.
RerankMatches(matches, topK, up) ==
    IF ManifestThrows(matches) THEN Threw
    ELSE IF up.kind # "json" THEN Threw
    ELSE IF up.json.t \notin {"array", "string"} THEN Threw
    ELSE Returned(RerankLoop(matches, SliceTopK(up.json.elems, topK)))

\* Upstream outcomes
UpFail(k) == [kind |-> k, json |-> [t |-> "null", elems |-> <<>>]]
UpJson(t, elems) == [kind |-> "json", json |-> [t |-> t, elems |-> elems]]

SeqsUpTo(S, n) == UNION {[1..k -> S] : k \in 0..n}

\* Index values the service can answer for a list of n candidates.
IdxVals(n) ==
    {JSNum(2 * i) : i \in (0 - 1)..n} \cup {JSNum(1), JSIntStr(0), JSText, JSNull}

UpstreamOutcomes(n, maxLen) ==
    {UpFail(k) : k \in {"fetch_throw", "not_ok", "no_candidates",
                        "bad_structure", "syntax_error"}}
    \cup {UpJson(t, <<>>) : t \in {"number", "object", "null"}}
    \cup {UpJson("array", s) : s \in SeqsUpTo(IdxVals(n), maxLen)}
    \cup {UpJson("string", s) : s \in SeqsUpTo({JSIntStr(0), JSIntStr(1), JSText}, 1)}

\* ------------------------------------------------------------------------
\* Text: name.trim().split(/\s+/), join(' ') and ILIKE patterns
\* ------------------------------------------------------------------------
Lower(c) == IF c = "A" THEN "a" ELSE IF c = "B" THEN "b" ELSE c

RECURSIVE TrimLeft(_)
TrimLeft(s) ==
    IF s # <<>> /\ Head(s) = " " THEN TrimLeft(Tail(s)) ELSE s

RECURSIVE TrimRight(_)
TrimRight(s) ==
    IF s # <<>> /\ s[Len(s)] = " " THEN TrimRight(SubSeq(s, 1, Len(s) - 1)) ELSE s

Trim(s) == TrimRight(TrimLeft(s))

\* s.split(/\s+/): cur is the part being read, a run of spaces ends it.
RECURSIVE SplitFrom(_, _)
SplitFrom(s, cur) ==
    IF s = <<>> THEN <<cur>>
    ELSE IF Head(s) = " " THEN <<cur>> \o SplitFrom(TrimLeft(s), <<>>)
    ELSE SplitFrom(Tail(s), Append(cur, Head(s)))

NameParts(name) == SplitFrom(Trim(name), <<>>)

RECURSIVE JoinSpace(_)
JoinSpace(parts) ==
    IF parts = <<>> THEN <<>>
    ELSE IF Len(parts) = 1 THEN parts[1]
    ELSE parts[1] \o <<" ">> \o JoinSpace(Tail(parts))

\* ILIKE: % matches any run of characters, _ any one character, every other
\* character matches itself in either case.
RECURSIVE ILike(_, _)
ILike(s, pat) ==
    IF pat = <<>> THEN s = <<>>
    ELSE IF Head(pat) = "%" THEN ILike(s, Tail(pat)) \/ (s # <<>> /\ ILike(Tail(s), pat))
    ELSE /\ s # <<>>
         /\ (Head(pat) = "_" \/ Lower(Head(pat)) = Lower(Head(s)))
         /\ ILike(Tail(s), Tail(pat))

Containing(x) == <<"%">> \o x \o <<"%">>

\* ------------------------------------------------------------------------
\* Identity resolution queries (search-by-username)
\* ------------------------------------------------------------------------
RowsOf(table) == {table[i] : i \in 1..Len(table)}

\* Mutant: the exact query filters on the first name only.
Tier1Rows_FirstOnly(attendeesTable, name) ==
    {r \in RowsOf(attendeesTable) : ILike(r.first_name, NameParts(name)[1])}

\* .ilike('first_name', firstName).ilike('last_name', lastName)
Tier1Rows(attendeesTable, name) ==
    LET parts == NameParts(name)
        firstName == parts[1]
        lastName == JoinSpace(Tail(parts))
    IN {r \in RowsOf(attendeesTable) :
            ILike(r.first_name, firstName) /\ ILike(r.last_name, lastName)}

\* .or(`first_name.ilike.%${name}%,last_name.ilike.%${name}%`)
Tier2Rows(attendeesTable, name) ==
    {r \in RowsOf(attendeesTable) :
        ILike(r.first_name, Containing(name)) \/ ILike(r.last_name, Containing(name))}

\* .or(`first_name.ilike.%${firstName}%,last_name.ilike.%${lastName}%`)
Tier3Rows(attendeesTable, name) ==
    LET parts == NameParts(name)
        firstName == parts[1]
        lastName == parts[Len(parts)]
    IN {r \in RowsOf(attendeesTable) :
            ILike(r.first_name, Containing(firstName))
            \/ ILike(r.last_name, Containing(lastName))}

\* The orders in which a query without ORDER BY can return the rows of S,
\* cut to the first n.
Orderings(S) ==
    {s \in [1..Cardinality(S) -> S] : \A i, j \in 1..Cardinality(S) : i # j => s[i] # s[j]}

Limited(S, n) == {SubSeq(s, 1, Min(n, Len(s))) : s \in Orderings(S)}

\* What a select answers: {data: rows, error: null} or {data: null, error}.
QueryOutcomes(S, n) ==
    {[isNull |-> FALSE, rows |-> s, error |-> FALSE] : s \in Limited(S, n)}
    \cup {[isNull |-> TRUE, rows |-> <<>>, error |-> TRUE]}

\* !attendees || attendees.length === 0
NoneFound(a) == a.isNull \/ Len(a.rows) = 0

\* ------------------------------------------------------------------------
\* Vector search: match_offerings / match_requests
\* ------------------------------------------------------------------------
\* cos of k * 30 degrees, k = 0..6, in units of 1/Scale
CosTable == <<100000, 86603, 50000, 0, -50000, -86603, -100000>>

AngleBetween(a, b) ==
    LET d == (a - b) % 12 IN IF d > 6 THEN 12 - d ELSE d

\* embedding <=> query_embedding
CosineDistance(a, b) == Scale - CosTable[AngleBetween(a, b) + 1]

Similarity(a, b) == Scale - CosineDistance(a, b)

\* WHERE (exclude_attendee_id IS NULL OR attendee_id != exclude_attendee_id)
\*   AND 1 - (embedding <=> query_embedding) > match_threshold
\* NULL is 0; a comparison with a NULL attendee_id is not true.
\* Mutant: a row whose similarity equals the threshold passes.
MatchFilter_AtLeast(table, q, threshold, exclude) ==
    {r \in RowsOf(table) :
        /\ (exclude = 0 \/ (r.attendee_id # 0 /\ r.attendee_id # exclude))
        /\ Similarity(r.embedding, q) >= threshold}

MatchFilter(table, q, threshold, exclude) ==
    {r \in RowsOf(table) :
        /\ (exclude = 0 \/ (r.attendee_id # 0 /\ r.attendee_id # exclude))
        /\ Similarity(r.embedding, q) > threshold}

MatchRow(r, q) ==
    [attendee_id |-> r.attendee_id, text |-> r.text,
     similarity |-> Similarity(r.embedding, q), attendee |-> NullRow]

\* ORDER BY embedding <=> query_embedding LIMIT match_count: every order of
\* the filtered rows that ascends in distance, cut to match_count rows.
MatchSearch(table, q, threshold, count, exclude) ==
    LET F == MatchFilter(table, q, threshold, exclude)
        sorted == {s \in Orderings(F) :
                     \A a, b \in 1..Len(s) :
                        a < b => CosineDistance(s[a].embedding, q)
                                    <= CosineDistance(s[b].embedding, q)}
    IN {[k \in 1..Min(count, Len(s)) |-> MatchRow(s[k], q)] : s \in sorted}

match_offerings(database, q, threshold, count, exclude) ==
    MatchSearch(database.offerings, q, threshold, count, exclude)

match_requests(database, q, threshold, count, exclude) ==
    MatchSearch(database.requests, q, threshold, count, exclude)

\* What supabase.rpc answers: {data, error: null} or {data: null, error}.
RpcOutcomes(results) ==
    {[rows |-> s, error |-> FALSE] : s \in results}
    \cup {[rows |-> <<>>, error |-> TRUE]}

\* ------------------------------------------------------------------------
\* Stored data
\* ------------------------------------------------------------------------
Item(k, a, t, e) == [id |-> k, attendee_id |-> a, text |-> t, embedding |-> e]

FixtureOfferings ==
    <<Item(1, 1, "o1", 0), Item(2, 2, "o2", 0), Item(3, 3, "o3", 1)>>

\* A request row with the columns the migration adds: the embedding of its
\* synthetic offering (synthetic_offering_embedding).
RequestItem(k, a, t, e, se) ==
    [id |-> k, attendee_id |-> a, text |-> t, embedding |-> e,
     synthetic_offering_embedding |-> se]

FixtureRequests ==
    <<RequestItem(1, 1, "r1", 0, 1), RequestItem(2, 1, "r2", 1, 3),
      RequestItem(3, 2, "r3", 1, 0)>>

NamePairs ==
    {<< <<"a">>, <<"b">> >>,
     << <<"A">>, <<"B">> >>,
     << <<"a">>, <<"b", "b">> >>,
     << <<"a", "b">>, <<"a", " ", "b">> >>}

AttendeeTables ==
    {<<Row(1, n1[1], n1[2]), Row(2, n2[1], n2[2]), Row(3, n3[1], n3[2])>> :
        n1 \in NamePairs, n2 \in NamePairs, n3 \in NamePairs}

FixtureAttendees ==
    <<Row(1, <<"a">>, <<"b">>), Row(2, <<"A">>, <<"B">>),
      Row(3, <<"a", "b">>, <<"a", " ", "b">>)>>

\* The fixture with its offerings and requests, and every table of attendee
\* names without them.
Datasets ==
    {[attendees |-> FixtureAttendees, offerings |-> FixtureOfferings,
      requests |-> FixtureRequests]}
    \cup {[attendees |-> t, offerings |-> <<>>, requests |-> <<>>] : t \in AttendeeTables}

\* Names searched for
SearchNames ==
    {<<"a", " ", "b">>, <<"A", " ", " ", "b">>, <<"a">>, <<"b", "b">>,
     <<"b", " ", "a", " ", "b">>, <<"b", "b", " ", "b", "b">>, <<"_", " ", "b">>}

\* Angles the embedding service answers with
QueryAngles == {0, 1, 3}

\* ------------------------------------------------------------------------
\* State
\* ------------------------------------------------------------------------
VARIABLES
    rr_matches,     \* rerankMatches: the candidate list of the call
    rr_topK,        \* rerankMatches: topK of the call
    rr_up,          \* rerankMatches: the upstream outcome of the call
    rr_out,         \* rerankMatches: the outcome of the latest call
    rr_pc,          \* "ready" before the call, "done" after it
    fn,             \* the edge function invoked
    input,          \* the HTTP request: method and the body's input field
    db,             \* the stored tables
    pc,             \* the handler's position
    attendees,      \* search-by-username: let attendees
    searchError,    \* search-by-username: let searchError
    queries,        \* search-by-username: the tier queries executed so far
    attendee,       \* search-by-username: const attendee
    requests,       \* search-by-username: the attendee's requests
    offerings,      \* search-by-username: the attendee's offerings
    phase,          \* search-by-username: which of the two loops runs
    i,              \* search-by-username: the loop index (from 1)
    synthetic,      \* the synthetic offering text: "none", "blank" or "text"
    queryEmbedding, \* the query vector's angle index, -1 before it exists
    rawMatches,     \* the rows the vector search answered
    lookups,        \* the per-candidate attendee lookups
    validMatches,   \* the candidates handed to rerankMatches
    rpcExclude,     \* exclude_attendee_id of the latest rpc call, 0 for null
    result,         \* search-by-username: the two group lists
    response,       \* the HTTP response, status 0 while there is none
    calls,          \* the calls made after input validation
    generated,      \* search-by-username: generateSyntheticOffering calls per request text
    invocation,     \* the number of the HTTP request being handled
    ms_fn,          \* match_offerings / match_requests: the function called
    ms_table,       \* the rows of the collection searched
    ms_q,           \* query_embedding
    ms_threshold,   \* match_threshold
    ms_count,       \* match_count
    ms_exclude,     \* exclude_attendee_id, 0 for NULL
    ms_out,         \* the rows returned
    ms_pc,          \* "ready" before the call, "done" after it
    r2o,            \* request_to_offering_matches
    o2r,            \* offering_to_request_matches
    pre_pc,         \* precomputation: the step of the run
    pre_j,          \* precomputation: the item being handled (from 1)
    pre_run,        \* precomputation: the number of completed runs
    pre_snap,       \* precomputation: the match tables after the first run
    emb_text,       \* generateEmbedding: the text of the call
    emb_up,         \* generateEmbedding: the upstream outcome of the call
    emb_out,        \* generateEmbedding: the outcome of the call
    emb_pc,         \* "ready" before the call, "done" after it
    cl_now,         \* front end: the time in ms
    cl_loading,     \* useSupabase: loading.value
    cl_error,       \* useSupabase: error.value
    cl_ops          \* useSupabase: the operations called, each with its fetch

rrVars == <<rr_matches, rr_topK, rr_up, rr_out, rr_pc>>
msVars == <<ms_fn, ms_table, ms_q, ms_threshold, ms_count, ms_exclude, ms_out, ms_pc>>
preVars == <<pre_pc, pre_j, pre_run, pre_snap>>
embVars == <<emb_text, emb_up, emb_out, emb_pc>>
clVars == <<cl_now, cl_loading, cl_error, cl_ops>>
extVars == <<preVars, embVars, clVars>>
sideVars == <<msVars, r2o, o2r, invocation, extVars>>
rrCall == <<rr_matches, rr_topK, rr_up, rr_pc>>
reqVars == <<fn, input, db>>
resolveVars == <<attendees, searchError, queries, attendee>>
itemVars == <<requests, offerings, phase, i>>
pipeVars == <<synthetic, queryEmbedding, rawMatches, lookups, validMatches>>
vars == <<rr_matches, rr_topK, rr_up, rr_out, rr_pc, fn, input, db, pc,
          attendees, searchError, queries, attendee, requests, offerings,
          phase, i, synthetic, queryEmbedding, rawMatches, lookups,
          validMatches, rpcExclude, result, response, calls, generated,
          invocation, ms_fn, ms_table, ms_q, ms_threshold, ms_count,
          ms_exclude, ms_out, ms_pc, r2o, o2r, pre_pc, pre_j, pre_run,
          pre_snap, emb_text, emb_up, emb_out, emb_pc, cl_now, cl_loading,
          cl_error, cl_ops>>

\* ------------------------------------------------------------------------
\* Stand-alone calls of rerankMatches
\* ------------------------------------------------------------------------
PoolRows == <<Row(1, <<"a">>, <<"b">>), Row(2, <<"A">>, <<"b">>)>>

CandPool ==
    {[attendee_id |-> 1, text |-> "t1", similarity |-> 86603, attendee |-> PoolRows[1]],
     [attendee_id |-> 2, text |-> "t2", similarity |-> 50049, attendee |-> PoolRows[2]],
     [attendee_id |-> 3, text |-> "t3", similarity |-> 50050, attendee |-> NullRow]}

NullAttendees == [isNull |-> TRUE, rows |-> <<>>, error |-> FALSE]
EmptyResult == [who |-> <<>>, you |-> <<>>]
NoResponse ==
    [status |-> 0, error |-> "", name |-> <<>>, attendee |-> <<>>,
     who |-> <<>>, you |-> <<>>, query |-> <<>>, matches |-> <<>>]

RRIdle ==
    /\ rr_matches = <<>>
    /\ rr_topK = 0
    /\ rr_up = UpFail("fetch_throw")
    /\ rr_out = Returned(<<>>)
    /\ rr_pc = "idle"

HandlerIdle ==
    /\ fn = "none"
    /\ input = [method |-> "POST", t |-> "missing", s |-> <<>>]
    /\ db = [attendees |-> <<>>, offerings |-> <<>>, requests |-> <<>>]
    /\ pc = "idle"
    /\ attendees = NullAttendees
    /\ searchError = FALSE
    /\ queries = <<>>
    /\ attendee = NullRow
    /\ requests = <<>>
    /\ offerings = <<>>
    /\ phase = "none"
    /\ i = 0
    /\ synthetic = "none"
    /\ queryEmbedding = 0 - 1
    /\ rawMatches = <<>>
    /\ lookups = <<>>
    /\ validMatches = <<>>
    /\ rpcExclude = 0
    /\ result = EmptyResult
    /\ response = NoResponse
    /\ calls = {}

\* The texts of the stored requests
RequestTexts == {FixtureRequests[k].text : k \in 1..Len(FixtureRequests)}

NeverGenerated == [t \in RequestTexts |-> 0]

MatchIdle ==
    /\ ms_fn = "none"
    /\ ms_table = <<>>
    /\ ms_q = 0
    /\ ms_threshold = 0
    /\ ms_count = 0
    /\ ms_exclude = 0
    /\ ms_out = <<>>
    /\ ms_pc = "idle"

PreIdle ==
    /\ pre_pc = "idle"
    /\ pre_j = 0
    /\ pre_run = 0
    /\ pre_snap = <<{}, {}>>

EmbIdle ==
    /\ emb_text = ""
    /\ emb_up = [kind |-> "fetch_throw", values |-> <<>>]
    /\ emb_out = [threw |-> FALSE, value |-> <<>>, called |-> FALSE]
    /\ emb_pc = "idle"

ClientIdle ==
    /\ cl_now = 0
    /\ cl_loading = FALSE
    /\ cl_error = [name |-> "none", ms |-> 0]
    /\ cl_ops = <<>>

ExtIdle == PreIdle /\ EmbIdle /\ ClientIdle

\* The rows the precomputation stored for the fixture
FixtureR2O == {[source |-> 1, candidate |-> 2, rank |-> 1],
               [source |-> 3, candidate |-> 1, rank |-> 1]}

FixtureO2R == {[source |-> 1, candidate |-> 3, rank |-> 1],
               [source |-> 2, candidate |-> 1, rank |-> 1]}

InitRerank ==
    /\ rr_matches \in SeqsUpTo(CandPool, MaxCand)
    /\ rr_topK \in 0..MaxTopK
    /\ rr_up = UpFail("fetch_throw")
    /\ rr_out = Threw
    /\ rr_pc = "ready"
    /\ HandlerIdle
    /\ MatchIdle
    /\ ExtIdle
    /\ r2o = {} /\ o2r = {}
    /\ generated = NeverGenerated
    /\ invocation = 0

RerankCall ==
    /\ rr_pc = "ready"
    /\ \E up \in UpstreamOutcomes(Len(rr_matches), MaxIdxLen) :
        /\ rr_up' = up
        /\ rr_out' = RerankMatches(rr_matches, rr_topK, up)
    /\ rr_pc' = "done"
    /\ UNCHANGED <<rr_matches, rr_topK, fn, input, db, pc, attendees,
                   searchError, queries, attendee, requests, offerings, phase,
                   i, synthetic, queryEmbedding, rawMatches, lookups,
                   validMatches, rpcExclude, result, response, calls,
                   sideVars, generated>>

NextRerank == RerankCall

SpecRerank == InitRerank /\ [][NextRerank]_vars

\* ------------------------------------------------------------------------
\* Stand-alone calls of match_offerings / match_requests
\* ------------------------------------------------------------------------
ItemTexts == <<"t1", "t2", "t3", "t4", "t5">>

\* Collections of up to n rows with ids 1..n, each owned by attendee 1 or 2
Collections(n) ==
    UNION {[1..m -> {Item(0, a, "t", e) : a \in {1, 2}, e \in QueryAngles}] : m \in 0..n}

WithIds(rows) == [k \in 1..Len(rows) |-> [rows[k] EXCEPT !.id = k, !.text = ItemTexts[k]]]

Thresholds == {0, MatchThreshold, 86603}

InitMatch ==
    /\ RRIdle
    /\ HandlerIdle
    /\ ExtIdle
    /\ r2o = {} /\ o2r = {}
    /\ generated = NeverGenerated
    /\ invocation = 0
    /\ ms_fn \in {"match_offerings", "match_requests"}
    /\ ms_table \in {WithIds(rows) : rows \in Collections(MaxRows)}
    /\ ms_q \in QueryAngles
    /\ ms_threshold \in Thresholds
    /\ ms_count \in 0..MaxMatchCount
    /\ ms_exclude \in 0..2
    /\ ms_out = <<>>
    /\ ms_pc = "ready"

MatchCall ==
    /\ ms_pc = "ready"
    /\ ms_out' \in
        IF ms_fn = "match_offerings"
        THEN match_offerings([attendees |-> <<>>, offerings |-> ms_table, requests |-> <<>>],
                             ms_q, ms_threshold, ms_count, ms_exclude)
        ELSE match_requests([attendees |-> <<>>, offerings |-> <<>>, requests |-> ms_table],
                            ms_q, ms_threshold, ms_count, ms_exclude)
    /\ ms_pc' = "done"
    /\ UNCHANGED <<rrVars, extVars, reqVars, pc, resolveVars, itemVars, pipeVars, rpcExclude,
                   result, response, calls, generated, invocation, r2o, o2r,
                   ms_fn, ms_table, ms_q, ms_threshold, ms_count, ms_exclude>>

NextMatch == MatchCall

SpecMatch == InitMatch /\ [][NextMatch]_vars

\* ------------------------------------------------------------------------
\* Row writes to the precomputed match tables
\* ------------------------------------------------------------------------
MatchEntry(s, c, r) == [source |-> s, candidate |-> c, rank |-> r]

\* rank INTEGER NOT NULL CHECK (rank >= 1 AND rank <= 50)
RankCheck(row) == row.rank >= RankMin /\ row.rank <= RankMax

\* PRIMARY KEY (request_id, offering_id) / (offering_id, request_id)
PrimaryKeyFree(table, row) ==
    \A m \in table : ~(m.source = row.source /\ m.candidate = row.candidate)

\* REFERENCES requests(id) / offerings(id): rows 1..MaxSources and
\* 1..MaxCandidates exist.
ForeignKeys(row) == row.source \in 1..MaxSources /\ row.candidate \in 1..MaxCandidates

Accepts(table, row) == RankCheck(row) /\ PrimaryKeyFree(table, row) /\ ForeignKeys(row)

\* The rows a writer offers: the candidates of a source in the order of
\* their ids, each with a rank below, within or above the checked range.
Offered(table) ==
    UNION {LET c == Cardinality({m \in table : m.source = s}) + 1
           IN {MatchEntry(s, c, r) : r \in {RankMin - 1, Min(c, RankMax), RankMax + 1}} :
           s \in 1..MaxSources}

InitSchema ==
    /\ RRIdle
    /\ HandlerIdle
    /\ MatchIdle
    /\ ExtIdle
    /\ generated = NeverGenerated
    /\ invocation = 0
    /\ r2o = {}
    /\ o2r = {}

\* INSERT INTO request_to_offering_matches
InsertR2O ==
    /\ \E row \in Offered(r2o) : Accepts(r2o, row) /\ r2o' = r2o \cup {row}
    /\ UNCHANGED <<rrVars, msVars, extVars, reqVars, pc, resolveVars, itemVars, pipeVars,
                   rpcExclude, result, response, calls, generated, invocation, o2r>>

\* INSERT INTO offering_to_request_matches
InsertO2R ==
    /\ \E row \in Offered(o2r) : Accepts(o2r, row) /\ o2r' = o2r \cup {row}
    /\ UNCHANGED <<rrVars, msVars, extVars, reqVars, pc, resolveVars, itemVars, pipeVars,
                   rpcExclude, result, response, calls, generated, invocation, r2o>>

\* DELETE of all rows of one source (also what ON DELETE CASCADE does)
DeleteSource ==
    /\ \E s \in 1..MaxSources :
        \/ /\ \E m \in r2o : m.source = s
           /\ r2o' = {m \in r2o : m.source # s} /\ o2r' = o2r
        \/ /\ \E m \in o2r : m.source = s
           /\ o2r' = {m \in o2r : m.source # s} /\ r2o' = r2o
    /\ UNCHANGED <<rrVars, msVars, extVars, reqVars, pc, resolveVars, itemVars, pipeVars,
                   rpcExclude, result, response, calls, generated, invocation>>

NextSchema == InsertR2O \/ InsertO2R \/ DeleteSource

SpecSchema == InitSchema /\ [][NextSchema]_vars

\* ------------------------------------------------------------------------
\* Responses
\* ------------------------------------------------------------------------
ErrorResponse(status, msg, name) ==
    [NoResponse EXCEPT !.status = status, !.error = msg, !.name = name]

\* catch (error) { return new Response({error: error.message}, {status: 500}) }
Caught == ErrorResponse(500, "error.message", <<>>)

\* handleCors: new Response('ok')
Preflight == [NoResponse EXCEPT !.status = 200, !.error = "", !.query = <<"o", "k">>]

\* Mutant: the not-found answer goes out with the catch block's status.
NotFoundResponse_500(name) == ErrorResponse(500, "No attendee found matching", name)

\* { error: `No attendee found matching '${name}'` }, status 404
NotFoundResponse(name) == ErrorResponse(404, "No attendee found matching", name)

UsernameResult(att, res) ==
    [NoResponse EXCEPT !.status = 200, !.attendee = FullName(att),
                       !.who = res.who, !.you = res.you]

FlatResult(text, matches) ==
    [NoResponse EXCEPT !.status = 200, !.query = text, !.matches = matches]

\* ------------------------------------------------------------------------
\* The HTTP requests
\* ------------------------------------------------------------------------
\* t: "nojson" the body is not a JSON object, "missing" the field is absent,
\* "nonstring" the field is a number, "string" the field is the text s.
Inputs(texts) ==
    {[method |-> "OPTIONS", t |-> "missing", s |-> <<>>]}
    \cup {[method |-> "POST", t |-> t, s |-> <<>>] : t \in {"nojson", "missing", "nonstring"}}
    \cup {[method |-> "POST", t |-> "string", s |-> x] : x \in texts \cup {<<>>}}

FreeTexts == {<<"a">>}

\* get-attendees reads no body
NoBodyInputs == {[method |-> m, t |-> "missing", s |-> <<>>] : m \in {"OPTIONS", "POST"}}

Init ==
    /\ RRIdle
    /\ fn \in {"username", "request", "offering", "attendees"}
    /\ input \in IF fn = "attendees" THEN NoBodyInputs
                  ELSE Inputs(IF fn = "username" THEN SearchNames ELSE FreeTexts)
    /\ db \in Datasets
    /\ pc = "recv"
    /\ attendees = NullAttendees
    /\ searchError = FALSE
    /\ queries = <<>>
    /\ attendee = NullRow
    /\ requests = <<>>
    /\ offerings = <<>>
    /\ phase = "none"
    /\ i = 0
    /\ synthetic = "none"
    /\ queryEmbedding = 0 - 1
    /\ rawMatches = <<>>
    /\ lookups = <<>>
    /\ validMatches = <<>>
    /\ rpcExclude = 0
    /\ result = EmptyResult
    /\ response = NoResponse
    /\ calls = {}
    /\ MatchIdle
    /\ ExtIdle
    /\ r2o = FixtureR2O /\ o2r = FixtureO2R
    /\ generated = NeverGenerated
    /\ invocation = 1

Respond(r) ==
    /\ response' = r
    /\ pc' = "done"

\* ------------------------------------------------------------------------
\* search-by-username: input and identity resolution
\* ------------------------------------------------------------------------
U_Receive ==
    /\ fn = "username" /\ pc = "recv"
    /\ IF input.method = "OPTIONS" THEN Respond(Preflight)
       ELSE IF input.t = "nojson" THEN Respond(Caught)
       ELSE IF input.t # "string" \/ input.s = <<>>
            THEN Respond(ErrorResponse(400, "Name parameter is required and must be a string", <<>>))
       ELSE pc' = "tier1" /\ response' = response
    /\ UNCHANGED <<rrVars, sideVars, generated, rpcExclude, reqVars, resolveVars, itemVars, pipeVars, result, calls>>

Executed(tier, out) == [tier |-> tier, rows |-> out.rows, error |-> out.error]

RunTier(tier, rows, limit, nextPc) ==
    /\ \E out \in QueryOutcomes(rows, limit) :
        /\ attendees' = [out EXCEPT !.error = FALSE]
        /\ searchError' = out.error
        /\ queries' = Append(queries, Executed(tier, out))
    /\ pc' = nextPc

SkipTier(nextPc) ==
    /\ pc' = nextPc
    /\ UNCHANGED <<attendees, searchError, queries>>

Tier1Guard(name) == Len(NameParts(name)) >= 2
\* Mutant: the substring query runs whatever the exact query found.
Tier2Guard_Always(a) == TRUE

Tier2Guard(a) == NoneFound(a)
Tier3Guard(a, name) == NoneFound(a) /\ Len(NameParts(name)) >= 2

U_Tier1 ==
    /\ fn = "username" /\ pc = "tier1"
    /\ IF Tier1Guard(input.s)
       THEN RunTier(1, Tier1Rows(db.attendees, input.s), Tier1Limit, "tier2")
       ELSE SkipTier("tier2")
    /\ UNCHANGED <<rrVars, sideVars, generated, rpcExclude, reqVars, attendee, itemVars, pipeVars, result, response, calls>>

U_Tier2 ==
    /\ fn = "username" /\ pc = "tier2"
    /\ IF Tier2Guard(attendees)
       THEN RunTier(2, Tier2Rows(db.attendees, input.s), Tier2Limit, "tier3")
       ELSE SkipTier("tier3")
    /\ UNCHANGED <<rrVars, sideVars, generated, rpcExclude, reqVars, attendee, itemVars, pipeVars, result, response, calls>>

U_Tier3 ==
    /\ fn = "username" /\ pc = "tier3"
    /\ IF Tier3Guard(attendees, input.s)
       THEN RunTier(3, Tier3Rows(db.attendees, input.s), Tier3Limit, "resolved")
       ELSE SkipTier("resolved")
    /\ UNCHANGED <<rrVars, sideVars, generated, rpcExclude, reqVars, attendee, itemVars, pipeVars, result, response, calls>>

\* if (searchError) throw; if (none) 404; const attendee = attendees[0]
U_Resolved ==
    /\ fn = "username" /\ pc = "resolved"
    /\ IF searchError THEN Respond(Caught) /\ attendee' = attendee
       ELSE IF NoneFound(attendees)
            THEN Respond(NotFoundResponse(input.s))
                 /\ attendee' = attendee
       ELSE /\ attendee' = attendees.rows[1]
            /\ pc' = "fetchOfferings"
            /\ response' = response
    /\ UNCHANGED <<rrVars, sideVars, generated, rpcExclude, reqVars, attendees, searchError, queries, itemVars,
                   pipeVars, result, calls>>

\* ------------------------------------------------------------------------
\* Outcomes of the external calls
\* ------------------------------------------------------------------------
\* generateSyntheticOffering: throws, or answers text whose trim() is blank
\* or not.  An empty request throws before the call.
GenerateOutcomes(text) ==
    IF text = "" THEN {"throw"} ELSE {"throw", "blank", "text"}

\* generateEmbedding: throws, or answers a unit vector.  An empty text throws
\* before the call.
EmbedOutcomes(isEmpty) ==
    IF isEmpty THEN {0 - 1} ELSE {0 - 1} \cup QueryAngles

\* from('attendees').select('*').eq('id', id).single(): the row, an error
\* value (also when no row has the id), or an exception.
FindAttendee(database, id) ==
    LET found == {r \in RowsOf(database.attendees) : r.id = id}
    IN IF found = {} THEN NullRow ELSE CHOOSE r \in found : TRUE

LookupOutcomes(database, id) ==
    {[st |-> "settled", row |-> FindAttendee(database, id)],
     [st |-> "settled", row |-> NullRow],
     [st |-> "thrown", row |-> NullRow]}

Pending == [st |-> "pending", row |-> NullRow]

AllSettled(ls) == \A k \in 1..Len(ls) : ls[k].st = "settled"

\* { ...match, attendee } for every lookup that produced a row, in order
RECURSIVE WithAttendees(_, _)
WithAttendees(raw, ls) ==
    IF raw = <<>> THEN <<>>
    ELSE (IF ls[1].row = NullRow THEN <<>>
          ELSE <<[raw[1] EXCEPT !.attendee = ls[1].row]>>)
         \o WithAttendees(Tail(raw), Tail(ls))

\* from(table).select('text').eq('attendee_id', id): no ORDER BY
OwnTexts(table, id) ==
    LET own == {r \in RowsOf(table) : r.attendee_id = id}
    IN {[k \in 1..Len(s) |-> s[k].text] : s \in Orderings(own)}

\* ------------------------------------------------------------------------
\* search-by-username: the two loops
\* ------------------------------------------------------------------------
ResetPipe ==
    /\ synthetic' = "none"
    /\ queryEmbedding' = 0 - 1
    /\ rawMatches' = <<>>
    /\ lookups' = <<>>
    /\ validMatches' = <<>>

\* Control reaches the head of loop ph with index k and result res.
Continue(ph, k, res, reqs, offs) ==
    /\ result' = res
    /\ ResetPipe
    /\ IF ph = "requests" /\ k <= Len(reqs)
       THEN pc' = "synth" /\ phase' = "requests" /\ i' = k /\ response' = response
       ELSE LET k2 == IF ph = "requests" THEN 1 ELSE k
            IN IF k2 <= Len(offs)
               THEN pc' = "embed" /\ phase' = "offerings" /\ i' = k2
                    /\ response' = response
               ELSE pc' = "done" /\ phase' = "none" /\ i' = 0
                    /\ response' = UsernameResult(attendee, res)

U_FetchOfferings ==
    /\ fn = "username" /\ pc = "fetchOfferings"
    /\ calls' = calls \cup {"fetch_offerings"}
    /\ \/ Respond(Caught) /\ offerings' = offerings
       \/ /\ offerings' \in OwnTexts(db.offerings, attendee.id)
          /\ pc' = "fetchRequests"
          /\ response' = response
    /\ UNCHANGED <<rrVars, sideVars, generated, rpcExclude, reqVars, resolveVars, requests, phase, i, pipeVars, result>>

U_FetchRequests ==
    /\ fn = "username" /\ pc = "fetchRequests"
    /\ calls' = calls \cup {"fetch_requests"}
    /\ \/ Respond(Caught) /\ UNCHANGED <<requests, phase, i, pipeVars, result>>
       \/ /\ requests' \in OwnTexts(db.requests, attendee.id)
          /\ Continue("requests", 1, result, requests', offerings)
    /\ UNCHANGED <<rrVars, sideVars, generated, rpcExclude, reqVars, resolveVars, offerings>>

U_Synth ==
    /\ fn = "username" /\ pc = "synth"
    /\ calls' = IF requests[i] = "" THEN calls ELSE calls \cup {"generate"}
    /\ generated' = IF requests[i] \in DOMAIN generated
                    THEN [generated EXCEPT ![requests[i]] = @ + 1]
                    ELSE generated
    /\ \E out \in GenerateOutcomes(requests[i]) :
        IF out = "throw" THEN Respond(Caught) /\ synthetic' = synthetic
        ELSE synthetic' = out /\ pc' = "embed" /\ response' = response
    /\ UNCHANGED <<rrVars, sideVars, rpcExclude, reqVars, resolveVars, itemVars, queryEmbedding,
                   rawMatches, lookups, validMatches, result>>

U_EmbedInput ==
    IF phase = "requests" THEN synthetic = "blank" ELSE offerings[i] = ""

U_Embed ==
    /\ fn = "username" /\ pc = "embed"
    /\ calls' = IF U_EmbedInput THEN calls ELSE calls \cup {"embed"}
    /\ \E out \in EmbedOutcomes(U_EmbedInput) :
        IF out < 0 THEN Respond(Caught) /\ queryEmbedding' = queryEmbedding
        ELSE queryEmbedding' = out /\ pc' = "search" /\ response' = response
    /\ UNCHANGED <<rrVars, sideVars, generated, rpcExclude, reqVars, resolveVars, itemVars, synthetic,
                   rawMatches, lookups, validMatches, result>>

\* Mutant: the search is called without the attendee's id.
U_Exclude_Null(att) == 0

\* The exclude_attendee_id argument of the rpc call
U_Exclude(att) == att.id

U_SearchResults ==
    IF phase = "requests"
    THEN match_offerings(db, queryEmbedding, MatchThreshold, MatchCount, U_Exclude(attendee))
    ELSE match_requests(db, queryEmbedding, MatchThreshold, MatchCount, U_Exclude(attendee))

U_Search ==
    /\ fn = "username" /\ pc = "search"
    /\ calls' = calls \cup {"search"}
    /\ rpcExclude' = U_Exclude(attendee)
    /\ \E out \in RpcOutcomes(U_SearchResults) :
        IF out.error \/ out.rows = <<>>
        THEN Continue(phase, i + 1, result, requests, offerings)
        ELSE /\ rawMatches' = out.rows
             /\ lookups' = [k \in 1..Len(out.rows) |-> Pending]
             /\ pc' = "lookup"
             /\ UNCHANGED <<phase, i, synthetic, queryEmbedding, validMatches,
                            result, response>>
    /\ UNCHANGED <<rrVars, sideVars, generated, reqVars, resolveVars, requests, offerings>>

\* One of the lookups started by rawMatches.map settles; a rejection rejects
\* Promise.all at once.
U_Lookup ==
    /\ fn = "username" /\ pc = "lookup"
    /\ calls' = calls \cup {"lookup"}
    /\ \E k \in 1..Len(lookups) :
        /\ lookups[k].st = "pending"
        /\ \E out \in LookupOutcomes(db, rawMatches[k].attendee_id) :
            IF out.st = "thrown" THEN Respond(Caught) /\ lookups' = lookups
            ELSE lookups' = [lookups EXCEPT ![k] = out]
                 /\ pc' = pc /\ response' = response
    /\ UNCHANGED <<rrVars, sideVars, generated, rpcExclude, reqVars, resolveVars, itemVars, synthetic,
                   queryEmbedding, rawMatches, validMatches, result>>

\* Promise.all resolves; filter((match) => match !== null)
U_Join ==
    /\ fn = "username" /\ pc = "lookup"
    /\ AllSettled(lookups)
    /\ LET valid == WithAttendees(rawMatches, lookups)
       IN IF Len(valid) > 0
          THEN /\ validMatches' = valid
               /\ pc' = "rerank"
               /\ UNCHANGED <<phase, i, synthetic, queryEmbedding, rawMatches,
                              lookups, result, response>>
          ELSE Continue(phase, i + 1, result, requests, offerings)
    /\ UNCHANGED <<rrVars, sideVars, generated, rpcExclude, reqVars, resolveVars, requests, offerings, calls>>

U_ItemText == IF phase = "requests" THEN requests[i] ELSE offerings[i]

\* Mutant: a new group is put in front of the earlier ones.
U_Push_Front(res, ph, text, finalMatches) ==
    LET group == [item |-> text, matches |-> finalMatches]
    IN IF ph = "requests" THEN [res EXCEPT !.who = <<group>> \o @]
       ELSE [res EXCEPT !.you = <<group>> \o @]

\* result.people_who_can_help_you.push / result.people_you_can_help.push
U_Push(res, ph, text, finalMatches) ==
    LET group == [item |-> text, matches |-> finalMatches]
    IN IF ph = "requests" THEN [res EXCEPT !.who = Append(@, group)]
       ELSE [res EXCEPT !.you = Append(@, group)]

U_Rerank ==
    /\ fn = "username" /\ pc = "rerank"
    /\ calls' = calls \cup {"rerank"}
    /\ \E up \in UpstreamOutcomes(Len(validMatches), MaxLLMLen) :
        LET out == RerankMatches(validMatches, TopK, up)
        IN /\ rr_out' = out
           /\ IF out.threw
              THEN Respond(Caught)
                   /\ UNCHANGED <<phase, i, pipeVars, result>>
              ELSE Continue(phase, i + 1, U_Push(result, phase, U_ItemText, out.value),
                            requests, offerings)
    /\ UNCHANGED <<rrCall, sideVars, generated, reqVars, resolveVars, requests, offerings, rpcExclude>>

NextUsername ==
    \/ U_Receive \/ U_Tier1 \/ U_Tier2 \/ U_Tier3 \/ U_Resolved
    \/ U_FetchOfferings \/ U_FetchRequests
    \/ U_Synth \/ U_Embed \/ U_Search \/ U_Lookup \/ U_Join \/ U_Rerank

\* ------------------------------------------------------------------------
\* search-by-username called again
\* ------------------------------------------------------------------------
\* The same request is sent once more after the response: the handler starts
\* with fresh locals; what persists is the database.
U_Again ==
    /\ fn = "username" /\ pc = "done"
    /\ invocation < MaxInvocations
    /\ invocation' = invocation + 1
    /\ pc' = "recv"
    /\ attendees' = NullAttendees
    /\ searchError' = FALSE
    /\ queries' = <<>>
    /\ attendee' = NullRow
    /\ requests' = <<>>
    /\ offerings' = <<>>
    /\ phase' = "none"
    /\ i' = 0
    /\ ResetPipe
    /\ rpcExclude' = 0
    /\ result' = EmptyResult
    /\ response' = NoResponse
    /\ calls' = {}
    /\ UNCHANGED <<rrVars, msVars, extVars, r2o, o2r, reqVars, generated>>

InitRepeat ==
    /\ Init
    /\ fn = "username"
    /\ db.requests # <<>>

NextRepeat == NextUsername \/ U_Again

SpecRepeat == InitRepeat /\ [][NextRepeat]_vars

\* ------------------------------------------------------------------------
\* search-by-request
\* ------------------------------------------------------------------------
\* The log line request?.substring(0, 100) runs before the validation: a
\* field that is neither a string nor null/undefined has no substring.
R_Receive ==
    /\ fn = "request" /\ pc = "recv"
    /\ IF input.method = "OPTIONS" THEN Respond(Preflight)
       ELSE IF input.t = "nojson" THEN Respond(Caught)
       ELSE IF input.t = "nonstring" THEN Respond(Caught)
       ELSE IF input.t # "string" \/ input.s = <<>>
            THEN Respond(ErrorResponse(400, "Request parameter is required and must be a string", <<>>))
       ELSE pc' = "synth" /\ response' = response
    /\ UNCHANGED <<rrVars, sideVars, generated, rpcExclude, reqVars, resolveVars, itemVars, pipeVars, result, calls>>

R_Synth ==
    /\ fn = "request" /\ pc = "synth"
    /\ calls' = calls \cup {"generate"}
    /\ \E out \in GenerateOutcomes("request") :
        IF out = "throw" THEN Respond(Caught) /\ synthetic' = synthetic
        ELSE synthetic' = out /\ pc' = "embed" /\ response' = response
    /\ UNCHANGED <<rrVars, sideVars, generated, rpcExclude, reqVars, resolveVars, itemVars, queryEmbedding,
                   rawMatches, lookups, validMatches, result>>

R_Embed ==
    /\ fn = "request" /\ pc = "embed"
    /\ calls' = IF synthetic = "blank" THEN calls ELSE calls \cup {"embed"}
    /\ \E out \in EmbedOutcomes(synthetic = "blank") :
        IF out < 0 THEN Respond(Caught) /\ queryEmbedding' = queryEmbedding
        ELSE queryEmbedding' = out /\ pc' = "search" /\ response' = response
    /\ UNCHANGED <<rrVars, sideVars, generated, rpcExclude, reqVars, resolveVars, itemVars, synthetic,
                   rawMatches, lookups, validMatches, result>>

R_Search ==
    /\ fn = "request" /\ pc = "search"
    /\ calls' = calls \cup {"search"}
    /\ rpcExclude' = 0
    /\ \E out \in RpcOutcomes(match_offerings(db, queryEmbedding, MatchThreshold, MatchCount, 0)) :
        IF out.error THEN Respond(Caught) /\ UNCHANGED <<rawMatches, lookups>>
        ELSE IF out.rows = <<>>
        THEN Respond(FlatResult(input.s, <<>>)) /\ UNCHANGED <<rawMatches, lookups>>
        ELSE /\ rawMatches' = out.rows
             /\ lookups' = [k \in 1..Len(out.rows) |-> Pending]
             /\ pc' = "lookup"
             /\ response' = response
    /\ UNCHANGED <<rrVars, sideVars, generated, reqVars, resolveVars, itemVars, synthetic,
                   queryEmbedding, validMatches, result>>

\* try { ... } catch (e) { return null }
R_Lookup ==
    /\ fn = "request" /\ pc = "lookup"
    /\ calls' = calls \cup {"lookup"}
    /\ \E k \in 1..Len(lookups) :
        /\ lookups[k].st = "pending"
        /\ \E out \in LookupOutcomes(db, rawMatches[k].attendee_id) :
            lookups' = [lookups EXCEPT ![k] = [st |-> "settled", row |-> out.row]]
    /\ UNCHANGED <<rrVars, sideVars, generated, rpcExclude, reqVars, resolveVars, itemVars, synthetic,
                   queryEmbedding, rawMatches, validMatches, result, response, pc>>

R_Join ==
    /\ fn = "request" /\ pc = "lookup"
    /\ AllSettled(lookups)
    /\ validMatches' = WithAttendees(rawMatches, lookups)
    /\ pc' = "rerank"
    /\ UNCHANGED <<rrVars, sideVars, generated, rpcExclude, reqVars, resolveVars, itemVars, synthetic,
                   queryEmbedding, rawMatches, lookups, result, response, calls>>

R_Rerank ==
    /\ fn = "request" /\ pc = "rerank"
    /\ calls' = calls \cup {"rerank"}
    /\ \E up \in UpstreamOutcomes(Len(validMatches), MaxLLMLen) :
        LET out == RerankMatches(validMatches, TopK, up)
        IN /\ rr_out' = out
           /\ IF out.threw THEN Respond(Caught)
              ELSE Respond(FlatResult(input.s, out.value))
    /\ UNCHANGED <<rrCall, sideVars, generated, reqVars, resolveVars, itemVars, pipeVars, rpcExclude, result>>

NextRequest ==
    \/ R_Receive \/ R_Synth \/ R_Embed \/ R_Search \/ R_Lookup \/ R_Join \/ R_Rerank

\* ------------------------------------------------------------------------
\* search-by-offering
\* ------------------------------------------------------------------------
O_Receive ==
    /\ fn = "offering" /\ pc = "recv"
    /\ IF input.method = "OPTIONS" THEN Respond(Preflight)
       ELSE IF input.t = "nojson" THEN Respond(Caught)
       ELSE IF input.t = "nonstring" THEN Respond(Caught)
       ELSE IF input.t # "string" \/ input.s = <<>>
            THEN Respond(ErrorResponse(400, "Offering parameter is required and must be a string", <<>>))
       ELSE pc' = "embed" /\ response' = response
    /\ UNCHANGED <<rrVars, sideVars, generated, rpcExclude, reqVars, resolveVars, itemVars, pipeVars, result, calls>>

O_Embed ==
    /\ fn = "offering" /\ pc = "embed"
    /\ calls' = calls \cup {"embed"}
    /\ \E out \in EmbedOutcomes(FALSE) :
        IF out < 0 THEN Respond(Caught) /\ queryEmbedding' = queryEmbedding
        ELSE queryEmbedding' = out /\ pc' = "search" /\ response' = response
    /\ UNCHANGED <<rrVars, sideVars, generated, rpcExclude, reqVars, resolveVars, itemVars, synthetic,
                   rawMatches, lookups, validMatches, result>>

O_Search ==
    /\ fn = "offering" /\ pc = "search"
    /\ calls' = calls \cup {"search"}
    /\ rpcExclude' = 0
    /\ \E out \in RpcOutcomes(match_requests(db, queryEmbedding, MatchThreshold, MatchCount, 0)) :
        IF out.error THEN Respond(Caught) /\ UNCHANGED <<rawMatches, lookups>>
        ELSE IF out.rows = <<>>
        THEN Respond(FlatResult(input.s, <<>>)) /\ UNCHANGED <<rawMatches, lookups>>
        ELSE /\ rawMatches' = out.rows
             /\ lookups' = [k \in 1..Len(out.rows) |-> Pending]
             /\ pc' = "lookup"
             /\ response' = response
    /\ UNCHANGED <<rrVars, sideVars, generated, reqVars, resolveVars, itemVars, synthetic,
                   queryEmbedding, validMatches, result>>

O_Lookup ==
    /\ fn = "offering" /\ pc = "lookup"
    /\ calls' = calls \cup {"lookup"}
    /\ \E k \in 1..Len(lookups) :
        /\ lookups[k].st = "pending"
        /\ \E out \in LookupOutcomes(db, rawMatches[k].attendee_id) :
            IF out.st = "thrown" THEN Respond(Caught) /\ lookups' = lookups
            ELSE lookups' = [lookups EXCEPT ![k] = out]
                 /\ pc' = pc /\ response' = response
    /\ UNCHANGED <<rrVars, sideVars, generated, rpcExclude, reqVars, resolveVars, itemVars, synthetic,
                   queryEmbedding, rawMatches, validMatches, result>>

O_Join ==
    /\ fn = "offering" /\ pc = "lookup"
    /\ AllSettled(lookups)
    /\ validMatches' = WithAttendees(rawMatches, lookups)
    /\ pc' = "rerank"
    /\ UNCHANGED <<rrVars, sideVars, generated, rpcExclude, reqVars, resolveVars, itemVars, synthetic,
                   queryEmbedding, rawMatches, lookups, result, response, calls>>

O_Rerank ==
    /\ fn = "offering" /\ pc = "rerank"
    /\ calls' = calls \cup {"rerank"}
    /\ \E up \in UpstreamOutcomes(Len(validMatches), MaxLLMLen) :
        LET out == RerankMatches(validMatches, TopK, up)
        IN /\ rr_out' = out
           /\ IF out.threw THEN Respond(Caught)
              ELSE Respond(FlatResult(input.s, out.value))
    /\ UNCHANGED <<rrCall, sideVars, generated, reqVars, resolveVars, itemVars, pipeVars, rpcExclude, result>>

NextOffering ==
    \/ O_Receive \/ O_Embed \/ O_Search \/ O_Lookup \/ O_Join \/ O_Rerank

\* ------------------------------------------------------------------------
\* get-attendees
\* ------------------------------------------------------------------------
G_Receive ==
    /\ fn = "attendees" /\ pc = "recv"
    /\ IF input.method = "OPTIONS" THEN Respond(Preflight)
       ELSE pc' = "fetch" /\ response' = response
    /\ UNCHANGED <<rrVars, sideVars, generated, rpcExclude, reqVars, resolveVars, itemVars,
                   pipeVars, result, calls>>

\* { id, value: `${first_name} ${last_name}`, label: the same }
FormatAttendee(att) == [id |-> att.id, value |-> FullName(att), label |-> FullName(att)]

\* select('id, first_name, last_name').order('last_name').order('first_name'):
\* the order of names that differ in case, blanks or punctuation is the
\* database collation's, so every order of the rows is a possible answer.
G_Answers(table) ==
    {[k \in 1..Len(rows) |-> FormatAttendee(rows[k])] : rows \in Orderings(RowsOf(table))}

\* Mutant: the handler deletes the rows it has read.
G_Fetch_Deleting ==
    /\ fn = "attendees" /\ pc = "fetch"
    /\ calls' = calls \cup {"fetch_attendees"}
    /\ \/ Respond(Caught)
       \/ \E list \in G_Answers(db.attendees) : Respond(FlatResult(<<>>, list))
    /\ db' = [db EXCEPT !.attendees = <<>>]
    /\ UNCHANGED <<rrVars, sideVars, generated, rpcExclude, fn, input, resolveVars, itemVars,
                   pipeVars, result>>

G_Fetch ==
    /\ fn = "attendees" /\ pc = "fetch"
    /\ calls' = calls \cup {"fetch_attendees"}
    /\ \/ Respond(Caught)
       \/ \E list \in G_Answers(db.attendees) : Respond(FlatResult(<<>>, list))
    /\ UNCHANGED <<rrVars, sideVars, generated, rpcExclude, reqVars, resolveVars, itemVars,
                   pipeVars, result>>

NextAttendees == G_Receive \/ G_Fetch

Next == NextUsername \/ NextRequest \/ NextOffering \/ NextAttendees

Spec == Init /\ [][Next]_vars

\* ------------------------------------------------------------------------
\* generateEmbedding (_shared/gemini.ts)
\* ------------------------------------------------------------------------
\* A component of a returned vector is the quotient num / sqrt(den): the raw
\* component divided by the square root of the raw sum of squares.  0 / 0 is
\* NaN, as in IEEE 754 arithmetic.
Quotient(val, sumSq) ==
    IF sumSq = 0 /\ val = 0
    THEN [nan |-> TRUE, num |-> 0, den |-> 0]
    ELSE [nan |-> FALSE, num |-> val, den |-> sumSq]

\* embedding.reduce((sum, val) => sum + val * val, 0)
RECURSIVE SumSquares(_)
SumSquares(v) ==
    IF v = <<>> THEN 0 ELSE v[1] * v[1] + SumSquares(Tail(v))

\* embedding.map(val => val / norm), norm the square root of the sum of squares
Normalize(v) == [k \in 1..Len(v) |-> Quotient(v[k], SumSquares(v))]

EmbThrow(called) == [threw |-> TRUE, value |-> <<>>, called |-> called]

EmbReturn(v) == [threw |-> FALSE, value |-> v, called |-> TRUE]

\* The function without the test of the length of the value list.
GenerateEmbedding_NoLengthTest(text, up) ==
    IF text = "" THEN EmbThrow(FALSE)
    ELSE IF up.kind \in {"fetch_throw", "not_ok", "bad_json", "null",
                         "no_embedding", "no_values"} THEN EmbThrow(TRUE)
    ELSE EmbReturn(Normalize(up.values))

\* generateEmbedding(text) against the upstream outcome up
GenerateEmbedding(text, up) ==
    IF text = "" THEN EmbThrow(FALSE)
    ELSE IF up.kind = "fetch_throw" THEN EmbThrow(TRUE)
    ELSE IF up.kind = "not_ok" THEN EmbThrow(TRUE)
    ELSE IF up.kind = "bad_json" THEN EmbThrow(TRUE)
    ELSE IF up.kind = "null" THEN EmbThrow(TRUE)
    ELSE IF up.kind \in {"no_embedding", "no_values"} THEN EmbThrow(TRUE)
    ELSE IF Len(up.values) = 0 THEN EmbThrow(TRUE)
    ELSE EmbReturn(Normalize(up.values))

\* The raw components the upstream service answers in the model.
RawComponents == {-4, -3, 0, 3, 4}

RawVectors == UNION {[1..n -> RawComponents] : n \in 0..MaxDim}

\* What the upstream service can do with one call: the fetch rejects, the
\* status is not OK, the body is no JSON, the body is null, an object without
\* embedding, an embedding without values, or an embedding with a value list.
EmbUpstream ==
    {[kind |-> k, values |-> <<>>] :
        k \in {"fetch_throw", "not_ok", "bad_json", "null", "no_embedding", "no_values"}}
    \cup {[kind |-> "values", values |-> v] : v \in RawVectors}

EmbTexts == {"", "t"}

InitEmbed ==
    /\ RRIdle
    /\ HandlerIdle
    /\ MatchIdle
    /\ PreIdle
    /\ ClientIdle
    /\ r2o = {}
    /\ o2r = {}
    /\ generated = NeverGenerated
    /\ invocation = 1
    /\ emb_text \in EmbTexts
    /\ emb_up \in EmbUpstream
    /\ emb_out = [threw |-> FALSE, value |-> <<>>, called |-> FALSE]
    /\ emb_pc = "ready"

EmbedCall ==
    /\ emb_pc = "ready"
    /\ emb_out' = GenerateEmbedding(emb_text, emb_up)
    /\ emb_pc' = "done"
    /\ UNCHANGED <<rrVars, msVars, preVars, clVars, r2o, o2r, invocation, reqVars,
                   pc, resolveVars, itemVars, pipeVars, rpcExclude, result,
                   response, calls, generated, emb_text, emb_up>>

NextEmbed == EmbedCall

SpecEmbed == InitEmbed /\ [][NextEmbed]_vars

\* ------------------------------------------------------------------------
\* Precomputation of the match tables
\* ------------------------------------------------------------------------
\* A request without synthetic offering embedding has NULL in the column.
NoEmbedding == 0 - 1

\* The column written for the first request instead of request k.
PersistSynthetic_First(reqs, k, e) ==
    [reqs EXCEPT ![1].synthetic_offering_embedding = e]

\* requests.synthetic_offering_embedding of request k holds e: the column
\* stores the embedding for reuse.
PersistSynthetic(reqs, k, e) ==
    [reqs EXCEPT ![k].synthetic_offering_embedding = e]

\* The rows of a collection as the search sees them: id, owner and the
\* vector compared (offerings: embedding; requests: the synthetic one).
OfferingVectors(database) ==
    [k \in 1..Len(database.offerings) |->
        [id |-> database.offerings[k].id,
         attendee_id |-> database.offerings[k].attendee_id,
         vector |-> database.offerings[k].embedding]]

RequestVectors(database) ==
    [k \in 1..Len(database.requests) |->
        [id |-> database.requests[k].id,
         attendee_id |-> database.requests[k].attendee_id,
         vector |-> database.requests[k].synthetic_offering_embedding]]

\* The positions of the rows that pass: similarity above the threshold, not
\* an item of the excluded owner, a vector present.
Passing(rows, q, exclude) ==
    {k \in 1..Len(rows) :
        /\ rows[k].vector # NoEmbedding
        /\ rows[k].attendee_id # exclude
        /\ Similarity(rows[k].vector, q) > MatchThreshold}

\* The place of row k in the result: descending similarity, rows of equal
\* similarity in the order of insertion.
PlaceOf(rows, q, exclude, k) ==
    1 + Cardinality({j \in Passing(rows, q, exclude) :
            \/ Similarity(rows[j].vector, q) > Similarity(rows[k].vector, q)
            \/ /\ Similarity(rows[j].vector, q) = Similarity(rows[k].vector, q)
               /\ j < k})

\* The match rows of one source: its best MatchCount candidates with their
\* ranks; none when the source has no vector to search with.
TopMatches(source, q, exclude, rows) ==
    IF q = NoEmbedding THEN {}
    ELSE {MatchEntry(source, rows[k].id, PlaceOf(rows, q, exclude, k)) :
            k \in {j \in Passing(rows, q, exclude) :
                        PlaceOf(rows, q, exclude, j) <= MatchCount}}

\* The prior rows of the source are replaced by the new ones.
ReplaceRows(table, source, rows) ==
    {m \in table : m.source # source} \cup rows

\* The datasets of the precomputation: the fixture's offerings, and two
\* requests with or without a synthetic offering embedding.
PreRequests ==
    {<<RequestItem(1, 1, "r1", 0, a), RequestItem(2, 2, "r2", 1, b)>> :
        a \in {NoEmbedding} \cup QueryAngles, b \in {NoEmbedding} \cup QueryAngles}

\* Rows a former run over other data left in a table
StaleRows == {MatchEntry(1, 3, 1), MatchEntry(1, 2, 2), MatchEntry(2, 2, 1)}

InitPrecompute ==
    /\ RRIdle
    /\ MatchIdle
    /\ EmbIdle
    /\ ClientIdle
    /\ fn = "none"
    /\ input = [method |-> "POST", t |-> "missing", s |-> <<>>]
    /\ \E reqs \in PreRequests :
        db = [attendees |-> FixtureAttendees, offerings |-> FixtureOfferings,
              requests |-> reqs]
    /\ pc = "idle"
    /\ attendees = NullAttendees
    /\ searchError = FALSE
    /\ queries = <<>>
    /\ attendee = NullRow
    /\ requests = <<>>
    /\ offerings = <<>>
    /\ phase = "none"
    /\ i = 0
    /\ synthetic = "none"
    /\ queryEmbedding = 0 - 1
    /\ rawMatches = <<>>
    /\ lookups = <<>>
    /\ validMatches = <<>>
    /\ rpcExclude = 0
    /\ result = EmptyResult
    /\ response = NoResponse
    /\ calls = {}
    /\ generated = NeverGenerated
    /\ invocation = 0
    /\ r2o \in {{}, StaleRows}
    /\ o2r \in {{}, StaleRows}
    /\ pre_pc = "synth"
    /\ pre_j = 1
    /\ pre_run = 0
    /\ pre_snap = <<{}, {}>>

preRest == <<rrVars, msVars, embVars, clVars, fn, input, pc, resolveVars, itemVars,
             pipeVars, rpcExclude, result, response, calls, generated, invocation>>

\* Step 1 for request pre_j: transform, embed and persist when the request
\* lacks a synthetic offering embedding, skip it otherwise.
P_Synth ==
    /\ pre_pc = "synth"
    /\ pre_j <= Len(db.requests)
    /\ IF db.requests[pre_j].synthetic_offering_embedding = NoEmbedding
       THEN \E e \in QueryAngles :
                db' = [db EXCEPT !.requests = PersistSynthetic(db.requests, pre_j, e)]
       ELSE db' = db
    /\ pre_j' = pre_j + 1
    /\ UNCHANGED <<preRest, r2o, o2r, pre_pc, pre_run, pre_snap>>

\* Step 1 is through: step 2 starts.
P_SynthDone ==
    /\ pre_pc = "synth"
    /\ pre_j > Len(db.requests)
    /\ pre_pc' = "requests"
    /\ pre_j' = 1
    /\ UNCHANGED <<preRest, db, r2o, o2r, pre_run, pre_snap>>

\* Step 2 for request pre_j: search the offerings with its synthetic
\* offering embedding and replace its rows.
P_Request ==
    /\ pre_pc = "requests"
    /\ pre_j <= Len(db.requests)
    /\ LET r == db.requests[pre_j]
       IN r2o' = ReplaceRows(r2o, r.id,
                    TopMatches(r.id, r.synthetic_offering_embedding, r.attendee_id,
                               OfferingVectors(db)))
    /\ pre_j' = pre_j + 1
    /\ UNCHANGED <<preRest, db, o2r, pre_pc, pre_run, pre_snap>>

P_RequestsDone ==
    /\ pre_pc = "requests"
    /\ pre_j > Len(db.requests)
    /\ pre_pc' = "offerings"
    /\ pre_j' = 1
    /\ UNCHANGED <<preRest, db, r2o, o2r, pre_run, pre_snap>>

\* Step 3 for offering pre_j: search the requests' synthetic embeddings with
\* its embedding and replace its rows.
P_Offering ==
    /\ pre_pc = "offerings"
    /\ pre_j <= Len(db.offerings)
    /\ LET o == db.offerings[pre_j]
       IN o2r' = ReplaceRows(o2r, o.id,
                    TopMatches(o.id, o.embedding, o.attendee_id, RequestVectors(db)))
    /\ pre_j' = pre_j + 1
    /\ UNCHANGED <<preRest, db, r2o, pre_pc, pre_run, pre_snap>>

\* The run is through; the tables after the first run are remembered.
P_Finish ==
    /\ pre_pc = "offerings"
    /\ pre_j > Len(db.offerings)
    /\ pre_pc' = "finished"
    /\ pre_j' = 0
    /\ pre_run' = pre_run + 1
    /\ pre_snap' = IF pre_run = 0 THEN <<r2o, o2r>> ELSE pre_snap
    /\ UNCHANGED <<preRest, db, r2o, o2r>>

\* The job is run again on the dataset as it is.
P_Again ==
    /\ pre_pc = "finished"
    /\ pre_run < MaxRuns
    /\ pre_pc' = "synth"
    /\ pre_j' = 1
    /\ UNCHANGED <<preRest, db, r2o, o2r, pre_run, pre_snap>>

NextPrecompute ==
    \/ P_Synth
    \/ P_SynthDone
    \/ P_Request
    \/ P_RequestsDone
    \/ P_Offering
    \/ P_Finish
    \/ P_Again

SpecPrecompute == InitPrecompute /\ [][NextPrecompute]_vars

\* ------------------------------------------------------------------------
\* Front end: the fetch with timeout and the useSupabase composable
\* ------------------------------------------------------------------------
\* The clock advances in halves of the timeout.
TickMs == TimeoutMs \div 2

Operations == {"searchByUsername", "searchByRequest", "searchByOffering", "getAttendees"}

NoError == [name |-> "none", ms |-> 0]

\* new Error(`Request timeout after ${timeoutMs}ms`)
TimeoutError(timeoutMs) == [name |-> "Request timeout after", ms |-> timeoutMs]

\* The catch block rethrowing whatever it caught.
WrapperCatch_Rethrow(error, timeoutMs) == [name |-> error, ms |-> 0]

\* catch (error): an AbortError becomes the timeout error, any other error
\* is thrown on.
WrapperCatch(error, timeoutMs) ==
    IF error = "AbortError" THEN TimeoutError(timeoutMs)
    ELSE [name |-> error, ms |-> 0]

\* One call of an operation: the composable's call, and under it the fetch
\* of createFetchWithTimeout with its timer.
NewOp(name, now) ==
    [op |-> name,
     started |-> now,
     timer |-> "armed",         \* setTimeout: armed, fired
     cleared |-> FALSE,         \* clearTimeout was called
     fetch |-> "pending",       \* pending, ok, http_error, failed, aborted
     wrapper |-> "pending",     \* pending, response, thrown
     thrown |-> NoError,        \* what the wrapper threw
     inTime |-> TRUE,           \* the wrapper settled within timeoutMs
     atTimeout |-> FALSE,       \* the wrapper settled when timeoutMs had passed
     returned |-> "none",       \* none, data, null
     recorded |-> FALSE,        \* the operation assigned error.value
     errorAfter |-> NoError,    \* error.value when the operation returned
     loadingAfter |-> TRUE]     \* loading.value when the operation returned

InFlight(o) == o.returned = "none"

InitClient ==
    /\ RRIdle
    /\ HandlerIdle
    /\ MatchIdle
    /\ PreIdle
    /\ EmbIdle
    /\ r2o = {}
    /\ o2r = {}
    /\ generated = NeverGenerated
    /\ invocation = 0
    /\ cl_now = 0
    /\ cl_loading = FALSE
    /\ cl_error = NoError
    /\ cl_ops = <<>>

clRest == <<rrVars, msVars, preVars, embVars, r2o, o2r, invocation, reqVars, pc,
            resolveVars, itemVars, pipeVars, rpcExclude, result, response,
            calls, generated>>

\* An operation is called: loading.value = true, error.value = null, and
\* through supabase.functions.invoke the fetch starts with its timer.
C_Call ==
    /\ Len(cl_ops) < MaxOps
    /\ \E name \in Operations : cl_ops' = Append(cl_ops, NewOp(name, cl_now))
    /\ cl_loading' = TRUE
    /\ cl_error' = NoError
    /\ UNCHANGED <<clRest, cl_now>>

\* The response arrives: clearTimeout(timeoutId); return response
C_FetchResponds ==
    /\ \E k \in 1..Len(cl_ops), status \in {"ok", "http_error"} :
        /\ cl_ops[k].fetch = "pending"
        /\ cl_ops' = [cl_ops EXCEPT ![k].fetch = status, ![k].cleared = TRUE,
                                    ![k].wrapper = "response",
                                    ![k].inTime = (cl_now - cl_ops[k].started <= TimeoutMs),
                                    ![k].atTimeout = (cl_now - cl_ops[k].started >= TimeoutMs)]
    /\ UNCHANGED <<clRest, cl_now, cl_loading, cl_error>>

\* The fetch rejects by itself: clearTimeout(timeoutId); throw error
C_FetchFails ==
    /\ \E k \in 1..Len(cl_ops) :
        /\ cl_ops[k].fetch = "pending"
        /\ cl_ops' = [cl_ops EXCEPT ![k].fetch = "failed", ![k].cleared = TRUE,
                                    ![k].wrapper = "thrown",
                                    ![k].thrown = WrapperCatch("TypeError", TimeoutMs),
                                    ![k].inTime = (cl_now - cl_ops[k].started <= TimeoutMs),
                                    ![k].atTimeout = (cl_now - cl_ops[k].started >= TimeoutMs)]
    /\ UNCHANGED <<clRest, cl_now, cl_loading, cl_error>>

\* The timer runs out: controller.abort(); the fetch rejects with an
\* AbortError, and the catch block calls clearTimeout(timeoutId) and throws.
C_TimerFires ==
    /\ \E k \in 1..Len(cl_ops) :
        /\ cl_ops[k].timer = "armed"
        /\ ~cl_ops[k].cleared
        /\ cl_now - cl_ops[k].started >= TimeoutMs
        /\ cl_ops' = [cl_ops EXCEPT ![k].timer = "fired",
                                    ![k].fetch = "aborted",
                                    ![k].cleared = TRUE,
                                    ![k].wrapper = "thrown",
                                    ![k].thrown = WrapperCatch("AbortError", TimeoutMs),
                                    ![k].inTime = (cl_now - cl_ops[k].started <= TimeoutMs),
                                    ![k].atTimeout = (cl_now - cl_ops[k].started >= TimeoutMs)]
    /\ UNCHANGED <<clRest, cl_now, cl_loading, cl_error>>

\* What supabase.functions.invoke resolves to: the data of an OK response, or
\* an error for a rejected fetch and for a status that is not OK.
InvokeError(o) ==
    IF o.wrapper = "thrown" THEN o.thrown
    ELSE IF o.fetch = "http_error" THEN [name |-> "FunctionsHttpError", ms |-> 0]
    ELSE NoError

\* The operation goes on after the await: it returns the data, or records
\* the error and returns null; finally loading.value = false.
C_Finish ==
    /\ \E k \in 1..Len(cl_ops) :
        /\ cl_ops[k].wrapper # "pending"
        /\ cl_ops[k].returned = "none"
        /\ LET err == InvokeError(cl_ops[k])
               after == IF err = NoError THEN cl_error ELSE err
           IN /\ cl_error' = after
              /\ cl_ops' = [cl_ops EXCEPT
                                ![k].returned = IF err = NoError THEN "data" ELSE "null",
                                ![k].recorded = (err # NoError),
                                ![k].errorAfter = after,
                                ![k].loadingAfter = FALSE]
    /\ cl_loading' = FALSE
    /\ UNCHANGED <<clRest, cl_now>>

\* Time passes while something can still happen, but not past the moment
\* a timer is due.
C_Tick ==
    /\ cl_now < MaxTicks * TickMs
    /\ Len(cl_ops) < MaxOps \/ \E k \in 1..Len(cl_ops) : cl_ops[k].wrapper = "pending"
    /\ \A k \in 1..Len(cl_ops) :
        (cl_ops[k].timer = "armed" /\ ~cl_ops[k].cleared)
            => cl_now - cl_ops[k].started < TimeoutMs
    /\ cl_now' = cl_now + TickMs
    /\ UNCHANGED <<clRest, cl_loading, cl_error, cl_ops>>

NextClient ==
    \/ C_Call
    \/ C_FetchResponds
    \/ C_FetchFails
    \/ C_TimerFires
    \/ C_Finish
    \/ C_Tick

SpecClient == InitClient /\ [][NextClient]_vars

\* ========================================================================
\* Properties
\* ========================================================================
RerankReturned == rr_pc = "done" /\ ~rr_out.threw

\* C1: rerankMatches returns at most topK entries, and every entry is built
\* from the candidate at some position of the input list.
C1_RerankWithinInput ==
    RerankReturned =>
        /\ Len(rr_out.value) <= rr_topK
        /\ \A k \in 1..Len(rr_out.value) :
            \E p \in 1..Len(rr_matches) : rr_out.value[k] = BuildEntry(rr_matches[p])

\* A call whose answer is longer than topK and fills the result to topK.
C1_Witness ==
    /\ RerankReturned
    /\ rr_topK >= 1
    /\ Len(rr_out.value) = rr_topK
    /\ rr_up.kind = "json"
    /\ Len(rr_up.json.elems) > rr_topK

\* An element is a valid index iff it is an integer number within [0, N) that
\* refers to a candidate with attendee data.
ValidIndex(matches, v) ==
    /\ v.t = "num"
    /\ v.v2 % 2 = 0
    /\ v.v2 >= 0
    /\ v.v2 \div 2 < Len(matches)
    /\ matches[(v.v2 \div 2) + 1].attendee # NullRow

RECURSIVE EntriesOfValid(_, _)
EntriesOfValid(matches, idxs) ==
    IF idxs = <<>> THEN <<>>
    ELSE (IF ValidIndex(matches, Head(idxs))
          THEN <<BuildEntry(matches[(Head(idxs).v2 \div 2) + 1])>>
          ELSE <<>>)
         \o EntriesOfValid(matches, Tail(idxs))

\* C2: when the service answers an index array, the call returns normally and
\* its result holds exactly the entries of the valid elements; every element
\* that is no integer, is out of range or refers to a candidate without
\* attendee data is dropped.
C2_InvalidIndicesDropped ==
    (rr_pc = "done" /\ rr_up.kind = "json" /\ rr_up.json.t = "array") =>
        /\ ~rr_out.threw
        /\ rr_out.value = EntriesOfValid(rr_matches, SubSeq(rr_up.json.elems, 1,
                                Min(rr_topK, Len(rr_up.json.elems))))

Responded == pc = "done" /\ input.method = "POST"

RECURSIVE Entries(_)
Entries(matches) ==
    IF matches = <<>> THEN <<>>
    ELSE <<BuildEntry(Head(matches))>> \o Entries(Tail(matches))

\* The first topK candidates in their similarity order
Fallback(matches, topK) == Entries(SubSeq(matches, 1, Min(topK, Len(matches))))

GroupsOf(r) == {r.who[k] : k \in 1..Len(r.who)} \cup {r.you[k] : k \in 1..Len(r.you)}

\* C3: when the rerank step fails, the request does not fail: the matches
\* answered are the first topK candidates in similarity order.
C3_RerankFailureFallsBack ==
    (Responded /\ "rerank" \in calls /\ rr_out.threw) =>
        /\ response.status = 200
        /\ fn \in {"request", "offering"} =>
                response.matches = Fallback(validMatches, TopK)
        /\ fn = "username" =>
                \E g \in GroupsOf(response) : g.matches = Fallback(validMatches, TopK)

\* C4: every group of a search-by-username success response has a non-empty
\* matches list.
C4_NoEmptyGroup ==
    (fn = "username" /\ Responded /\ response.status = 200) =>
        \A g \in GroupsOf(response) : Len(g.matches) > 0

MatchesOf(r) == UNION {{g.matches[k] : k \in 1..Len(g.matches)} : g \in GroupsOf(r)}

\* C5: in search-by-username the vector search is called with the resolved
\* attendee's id as exclude_attendee_id, and no row it answers, no candidate
\* handed to the reranker and no match of the result belongs to the attendee.
C5_SelfExcluded ==
    (fn = "username" /\ "search" \in calls) =>
        /\ rpcExclude = attendee.id
        /\ \A k \in 1..Len(rawMatches) : rawMatches[k].attendee_id # attendee.id
        /\ \A k \in 1..Len(validMatches) : validMatches[k].attendee_id # attendee.id
        /\ \A m \in MatchesOf(result) \cup MatchesOf(response) :
                m.swapcard # attendee.swapcard

\* A search has answered rows although an item of the attendee's own is as
\* close to the query.
C5_Witness ==
    /\ fn = "username" /\ pc = "lookup" /\ phase = "requests"
    /\ Len(rawMatches) > 0
    /\ \E r \in RowsOf(db.offerings) :
        /\ r.attendee_id = attendee.id
        /\ Similarity(r.embedding, queryEmbedding) > MatchThreshold

\* C6: a failure of one item's synthetic-offering generation, embedding or
\* vector search never ends the request with an error: the item is skipped
\* and the loop goes on, the response being a success.
C6_ItemFailureSkipped ==
    [][(fn = "username" /\ pc \in {"synth", "embed", "search"} /\ pc' = "done")
            => response'.status = 200]_vars

RECURSIVE IsSubSeq(_, _)
IsSubSeq(a, b) ==
    IF a = <<>> THEN TRUE
    ELSE IF b = <<>> THEN FALSE
    ELSE IF [Head(a) EXCEPT !.attendee = NullRow] = Head(b) THEN IsSubSeq(Tail(a), Tail(b))
    ELSE IsSubSeq(a, Tail(b))

\* C7: a failed attendee lookup never fails the request, and the candidates
\* handed to the reranker are the surviving ones in similarity order.
C7_LookupFailureDropsCandidate ==
    [][(pc = "lookup") =>
            /\ pc' = "done" => response'.status = 200
            /\ pc' = "rerank" => IsSubSeq(validMatches', rawMatches)]_vars

ResolutionOver == fn = "username" /\ pc \notin {"recv", "tier1", "tier2", "tier3", "resolved"}

TiersRun == {queries[k].tier : k \in 1..Len(queries)}

\* C8: the tier queries run in the order 1, 2, 3; a query runs only if every
\* earlier one yielded no row, tier 3 only for names of two or more parts;
\* while nothing is found no permitted tier is left out; the resolved attendee
\* is the first row of the first query that answered rows.
C8_TierOrder ==
    /\ \A a, b \in 1..Len(queries) : a < b =>
            queries[a].tier < queries[b].tier /\ queries[a].rows = <<>>
    /\ \A a \in 1..Len(queries) :
            queries[a].tier \in {1, 3} => Len(NameParts(input.s)) >= 2
    /\ (ResolutionOver /\ queries # <<>> /\ queries[Len(queries)].rows = <<>>) =>
            TiersRun = IF Len(NameParts(input.s)) >= 2 THEN {1, 2, 3} ELSE {2}
    /\ attendee # NullRow =>
            /\ queries # <<>>
            /\ queries[Len(queries)].rows # <<>>
            /\ attendee = queries[Len(queries)].rows[1]

\* The attendee was found by the third query.
C8_Witness ==
    /\ attendee # NullRow
    /\ Len(queries) = 3
    /\ queries[3].tier = 3

LowerAll(x) == [k \in 1..Len(x) |-> Lower(x[k])]

\* x occurs in y, whatever the case
ContainsCI(y, x) ==
    \E k \in 0..(Len(y) - Len(x)) : LowerAll(SubSeq(y, k + 1, k + Len(x))) = LowerAll(x)

ExactMatches(table, name) ==
    LET parts == NameParts(name)
    IN IF Len(parts) < 2 THEN {}
       ELSE {r \in RowsOf(table) :
                /\ LowerAll(r.first_name) = LowerAll(parts[1])
                /\ LowerAll(r.last_name) = LowerAll(JoinSpace(Tail(parts)))}

SubstringMatches(table, name) ==
    {r \in RowsOf(table) : ContainsCI(r.first_name, name) \/ ContainsCI(r.last_name, name)}

NoQueryError == \A k \in 1..Len(queries) : ~queries[k].error

\* C9: when no query reports an error, a name of two or more parts that
\* exactly one attendee matches in first and last name resolves to that
\* attendee by the first query alone; a name without exact match that exactly
\* one attendee's first or last name contains resolves to that attendee by the
\* second query.
C9_ResolutionDeterministic ==
    (ResolutionOver /\ NoQueryError) =>
        /\ Cardinality(ExactMatches(db.attendees, input.s)) = 1 =>
                /\ attendee \in ExactMatches(db.attendees, input.s)
                /\ TiersRun = {1}
        /\ (ExactMatches(db.attendees, input.s) = {}
            /\ Cardinality(SubstringMatches(db.attendees, input.s)) = 1) =>
                /\ attendee \in SubstringMatches(db.attendees, input.s)
                /\ queries[Len(queries)].tier = 2

\* One attendee matches exactly while another one contains the whole name.
C9_Witness ==
    /\ ResolutionOver
    /\ Cardinality(ExactMatches(db.attendees, input.s)) = 1
    /\ attendee \in ExactMatches(db.attendees, input.s)
    /\ SubstringMatches(db.attendees, input.s) \ ExactMatches(db.attendees, input.s) # {}

AllTiersEmpty ==
    /\ queries # <<>>
    /\ \A k \in 1..Len(queries) : queries[k].rows = <<>> /\ ~queries[k].error

\* C10: when every executed tier query answered zero rows, the response is
\* 404 with the not-found message naming the searched name, and no call
\* (fetch of offerings or requests, generation, embedding, vector search,
\* lookup, rerank) was made.
C10_NotFound ==
    (ResolutionOver /\ AllTiersEmpty) =>
        /\ pc = "done"
        /\ response.status = 404
        /\ response.error = "No attendee found matching"
        /\ response.name = input.s
        /\ calls = {}

\* All three queries ran and found nobody.
C10_Witness ==
    /\ ResolutionOver /\ AllTiersEmpty
    /\ Len(queries) = 3
    /\ response.status = 404

SearchFns == {"username", "request", "offering"}
FreeTextFns == {"request", "offering"}

\* The input field is missing, of another type than string, or empty.
InvalidField ==
    \/ input.t \in {"missing", "nonstring"}
    \/ input.t = "string" /\ input.s = <<>>

\* C11: in each of the three search functions an input field that is
\* missing, empty or no string is answered with status 400 and an error
\* message, and no call is made.
C11_InvalidInputRejected ==
    (fn \in SearchFns /\ Responded /\ InvalidField) =>
        /\ response.status = 400
        /\ response.error # ""
        /\ calls = {}

\* A step of the invocation failed: the body is no JSON object, a tier query
\* reported an error, or the rerank call threw.
StepFailed ==
    \/ input.t = "nojson"
    \/ \E k \in 1..Len(queries) : queries[k].error
    \/ "rerank" \in calls /\ rr_out.threw

\* C12: a search invocation has a response exactly when it is over; the
\* response is either status 200 without error, and then no step failed, or
\* status 400, 404 or 500 with an error message.
C12_OneWellFormedResponse ==
    (fn \in SearchFns /\ input.method = "POST") =>
        /\ (pc = "done") <=> (response # NoResponse)
        /\ pc = "done" =>
            \/ response.status = 200 /\ response.error = "" /\ ~StepFailed
            \/ response.status \in {400, 404, 500} /\ response.error # ""

\* C13: in the free-text functions rerankMatches is never called with an
\* empty candidate list, and a search that found no candidate is answered
\* with {query, matches: []} and status 200 without a rerank call.
C13_NoRerankOfNothing ==
    fn \in FreeTextFns =>
        /\ "rerank" \in calls => validMatches # <<>>
        /\ (Responded /\ "search" \in calls /\ rawMatches = <<>> /\ response # Caught) =>
                /\ response = FlatResult(input.s, <<>>)
                /\ "rerank" \notin calls

\* Every candidate's lookup is over and none produced an attendee record.
NoneResolvable ==
    /\ rawMatches # <<>>
    /\ AllSettled(lookups)
    /\ \A k \in 1..Len(lookups) : lookups[k].row = NullRow

\* C14: in the free-text functions, when the search found candidates and no
\* candidate's attendee record could be resolved, the response is an error
\* with a message, not status 200.
C14_NothingResolvableIsError ==
    (fn \in FreeTextFns /\ Responded /\ NoneResolvable) =>
        /\ response.status # 200
        /\ response.error # ""

\* The positions of the rows that pass: not the excluded attendee's, and
\* more similar than the threshold.
MatchPassing ==
    {k \in 1..Len(ms_table) :
        /\ ms_exclude = 0 \/ ms_table[k].attendee_id # ms_exclude
        /\ Scale - (Scale - CosTable[AngleBetween(ms_table[k].embedding, ms_q) + 1])
                > ms_threshold}

MatchAnswer(k) ==
    [attendee_id |-> ms_table[k].attendee_id, text |-> ms_table[k].text,
     similarity |-> CosTable[AngleBetween(ms_table[k].embedding, ms_q) + 1],
     attendee |-> NullRow]

C16_GeneratedOncePerRequest ==
    \A t \in RequestTexts : generated[t] <= 1

\* C17: a username search never calls the live vector search, the embedding
\* service or the synthetic-offering transformer; the candidates handed to
\* the reranker come from the precomputed match tables.
C17_UsernameUsesPrecomputed ==
    fn = "username" =>
        /\ calls \cap {"search", "embed", "generate"} = {}
        /\ (phase = "requests" /\ validMatches # <<>>) =>
                \A k \in 1..Len(validMatches) :
                    \E m \in r2o : db.offerings[m.candidate].text = validMatches[k].text

\* C18: no step of a search or get-attendees invocation, successful or not,
\* changes a row of attendees, offerings, requests or the two match tables.
C18_ReadOnly ==
    [][db' = db /\ r2o' = r2o /\ o2r' = o2r]_vars

\* An invocation that searched, looked up and reranked, and one way or the
\* other is over.
C18_Witness ==
    /\ pc = "done"
    /\ {"search", "lookup", "rerank"} \subseteq calls
    /\ response.status \in {200, 500}
    /\ db.offerings # <<>>

ItemsOf(groups) == [k \in 1..Len(groups) |-> groups[k].item]

\* a is b with some elements left out
RECURSIVE IsSubSeqOf(_, _)
IsSubSeqOf(a, b) ==
    IF a = <<>> THEN TRUE
    ELSE IF b = <<>> THEN FALSE
    ELSE IF Head(a) = Head(b) THEN IsSubSeqOf(Tail(a), Tail(b))
    ELSE IsSubSeqOf(a, Tail(b))

\* C19: the groups of people_who_can_help_you follow the order in which the
\* attendee's requests were read and the groups of people_you_can_help the
\* order of the offerings; an item has at most one group, which carries the
\* item's text; the response carries the groups as they were collected.
C19_GroupsInItemOrder ==
    fn = "username" =>
        /\ IsSubSeqOf(ItemsOf(result.who), requests)
        /\ IsSubSeqOf(ItemsOf(result.you), offerings)
        /\ (Responded /\ response.status = 200) =>
                response.who = result.who /\ response.you = result.you

\* Both requests of the attendee, read in the order r2, r1, have a group.
C19_Witness ==
    /\ fn = "username" /\ Responded /\ response.status = 200
    /\ requests = <<"r2", "r1">>
    /\ ItemsOf(response.who) = <<"r2", "r1">>

RowsPerSource == 50

MatchTableBounded(table) ==
    /\ \A s \in 1..MaxSources : Cardinality({m \in table : m.source = s}) <= RowsPerSource
    /\ \A m \in table : m.rank >= 1 /\ m.rank <= RowsPerSource
    /\ \A m, n \in table : (m.source = n.source /\ m.candidate = n.candidate) => m = n

\* C20: in every state of the two match tables that accepted row writes
\* lead to, a source has at most 50 rows, every rank is within 1..50 and no
\* (source, candidate) pair occurs twice.
C20_MatchTablesBounded ==
    MatchTableBounded(r2o) /\ MatchTableBounded(o2r)

\* An offering is being matched against the requests.
OfferingMatched ==
    \/ fn = "offering"
    \/ fn = "username" /\ phase = "offerings"

\* C21: when an offering is matched against the requests, the similarity of
\* every candidate request is the one between the query vector and the
\* embedding of that request's synthetic offering.
C21_SyntheticEmbeddingCompared ==
    (OfferingMatched /\ rawMatches # <<>>) =>
        \A k \in 1..Len(rawMatches) :
            \E r \in RowsOf(db.requests) :
                /\ r.attendee_id = rawMatches[k].attendee_id
                /\ r.text = rawMatches[k].text
                /\ rawMatches[k].similarity
                        = Similarity(r.synthetic_offering_embedding, queryEmbedding)

\* C22: the result of rerankMatches holds no input candidate twice: its
\* entries can be assigned to pairwise different positions of the input.
C22_NoCandidateTwice ==
    RerankReturned =>
        \E f \in [1..Len(rr_out.value) -> 1..Len(rr_matches)] :
            /\ \A a, b \in 1..Len(rr_out.value) : a # b => f[a] # f[b]
            /\ \A a \in 1..Len(rr_out.value) : rr_out.value[a] = BuildEntry(rr_matches[f[a]])

\* The service's text is no JSON array: it is no JSON at all, or JSON of
\* another kind.
NotAnArray ==
    \/ rr_up.kind = "syntax_error"
    \/ rr_up.kind = "json" /\ rr_up.json.t # "array"

\* C23: when the service's text is not parseable as a JSON array,
\* rerankMatches throws and returns no list.
C23_NonArrayThrows ==
    (rr_pc = "done" /\ NotAnArray) => rr_out.threw

\* C28: the list rerankMatches returns is made of the valid elements among
\* the first topK elements of the index array, in their order; elements from
\* position topK on add nothing.
C28_TruncatedBeforeValidation ==
    (RerankReturned /\ rr_up.kind = "json" /\ rr_up.json.t = "array") =>
        rr_out.value = EntriesOfValid(rr_matches,
                            SubSeq(rr_up.json.elems, 1, Min(rr_topK, Len(rr_up.json.elems))))

\* Some executed tier query reported a database error.
SomeQueryError == \E k \in 1..Len(queries) : queries[k].error

\* C29: a database error reported by any executed tier query is never
\* masked: once resolution is over no attendee has been taken, and the
\* request ends with a 500 response, never with 404 and never by going on.
C29_TierErrorNotMasked ==
    (ResolutionOver /\ SomeQueryError) =>
        /\ attendee = NullRow
        /\ pc = "done"
        /\ response.status = 500

\* The cases in which generateEmbedding has to fail: an empty text, a failed
\* or non-OK upstream call, a response without embedding or values, or with
\* an empty value list.
EmbMustFail ==
    \/ emb_text = ""
    \/ emb_up.kind \in {"fetch_throw", "not_ok", "no_embedding", "no_values"}
    \/ emb_up.kind = "values" /\ emb_up.values = <<>>

\* C24: generateEmbedding throws and returns no vector for an empty text, a
\* failed or non-OK upstream call, a response without embedding and an empty
\* value list; for an empty text no upstream call is made.
C24_EmbeddingFailures ==
    emb_pc = "done" =>
        /\ EmbMustFail => emb_out.threw /\ emb_out.value = <<>>
        /\ emb_text = "" => ~emb_out.called

C24_Witness ==
    /\ emb_pc = "done"
    /\ emb_text # ""
    /\ emb_up.kind = "values"
    /\ emb_up.values = <<>>
    /\ emb_out.threw
    /\ emb_out.called

\* The square of the L2 norm of a returned vector is 1: no component is NaN
\* and the squares num^2 / den of the components add up to 1.
RECURSIVE SquaresTimes(_, _)
SquaresTimes(v, d) ==
    IF v = <<>> THEN 0
    ELSE (IF v[1].den = 0 THEN 0 ELSE (v[1].num * v[1].num * d) \div v[1].den)
            + SquaresTimes(Tail(v), d)

UnitNorm(v) ==
    /\ v # <<>>
    /\ \A k \in 1..Len(v) : ~v[k].nan /\ v[k].den = v[1].den /\ v[k].den > 0
    /\ SquaresTimes(v, v[1].den) = v[1].den

\* C25: every vector generateEmbedding returns has L2 norm 1, for every
\* non-empty raw vector of the upstream service, the all-zero one included.
C25_UnitNorm ==
    (emb_pc = "done" /\ ~emb_out.threw) => UnitNorm(emb_out.value)

\* The same for the raw vectors that are not all zero.
C25_UnitNormOfNonZero ==
    (emb_pc = "done" /\ ~emb_out.threw /\ SumSquares(emb_up.values) # 0)
        => UnitNorm(emb_out.value)

C27_TimeoutIsNormalFailure ==
    \A k \in 1..Len(cl_ops) :
        LET o == cl_ops[k] IN
        /\ o.wrapper = "pending" => cl_now - o.started <= TimeoutMs
        /\ o.wrapper = "response" =>
                o.fetch \in {"ok", "http_error"} /\ o.inTime
        /\ (o.wrapper = "thrown" /\ o.thrown # TimeoutError(TimeoutMs)) =>
                o.fetch = "failed" /\ o.inTime
        /\ (o.wrapper = "thrown" /\ o.fetch = "aborted") =>
                /\ o.thrown = TimeoutError(TimeoutMs)
                /\ o.timer = "fired"
                /\ o.atTimeout
        /\ o.wrapper # "pending" => o.cleared
        /\ (o.returned # "none" /\ o.fetch = "aborted") =>
                /\ o.returned = "null"
                /\ o.errorAfter = TimeoutError(TimeoutMs)
                /\ ~o.loadingAfter

\* An operation whose request ran into the timeout has returned.
C27_Witness ==
    \E k \in 1..Len(cl_ops) :
        /\ cl_ops[k].fetch = "aborted"
        /\ cl_ops[k].thrown = TimeoutError(TimeoutMs)
        /\ cl_ops[k].returned = "null"
        /\ cl_ops[k].cleared
        /\ cl_error = TimeoutError(TimeoutMs)
        /\ ~cl_loading

\* C30: loading is true exactly while some operation of the instance is in
\* flight, and an operation has returned null exactly when it recorded its
\* failure in error.
C30_LoadingWhileInFlight ==
    /\ cl_loading = (\E k \in 1..Len(cl_ops) : InFlight(cl_ops[k]))
    /\ \A k \in 1..Len(cl_ops) :
            (cl_ops[k].returned = "null") = cl_ops[k].recorded

\* The second half alone: null is returned exactly by the operations that
\* recorded a failure.
C30_NullIffRecorded ==
    \A k \in 1..Len(cl_ops) : (cl_ops[k].returned = "null") = cl_ops[k].recorded

====
